---------------------------- MODULE Spec2Model ----------------------------
(***************************************************************************)
(* Model of configuration_database_compare.py: one run of main(), which    *)
(* connects to the database, extracts the configuration keys of the table  *)
(* config_field and of the insert scripts of the alenza and aicon          *)
(* directories, compares them, prints remediation statements and reports   *)
(* the number of duplicate keys.                                           *)
(*                                                                         *)
(* Text is modelled as TLA+ strings, which TLC treats as sequences of      *)
(* characters (Len, SubSeq and \o apply to them).  A Python dict is a      *)
(* sequence of <<key, value>> pairs with distinct keys, in insertion       *)
(* order.                                                                  *)
(***************************************************************************)
EXTENDS Integers, Sequences, FiniteSets, TLC

VARIABLES
    \* command line arguments (argparse, lines 459-494)
    contains,                    \* args.contains: the key substring filter
    client_specific_keyword,     \* args.client_keyword; "" stands for None
    comparison_direction,        \* args.comparison_direction
    is_print_stored_procs,       \* args.print_stored_procs
    \* the environment the run reads
    config_field,                \* rows of the table config_field
    alenza_files,                \* *.sql files under alenza/config/inserts
    aicon_files,                 \* *.sql files under aicon/config/inserts
    \* the run
    pc,                          \* position in main()
    connection,                  \* "none", "open" or "closed"
    TOTAL_WARNINGS,
    database_flagged_keys,
    alenza_scripts_flagged_keys,
    alenza_script_warnings,
    aicon_scripts_flagged_keys,
    aicon_script_warnings,
    all_scripts_flagged_keys,
    differences,
    stdout,                      \* the lines printed so far
    execute_sql_calls,           \* the number of calls of cursor.execute_sql
    call,                        \* the operation called and its arguments
    raised,                      \* the exception that left the call, "" if none
    exit_code                    \* the exit code of the process, -1 while it runs

vars == <<contains, client_specific_keyword, comparison_direction,
          is_print_stored_procs, config_field, alenza_files, aicon_files,
          pc, connection, TOTAL_WARNINGS, database_flagged_keys,
          alenza_scripts_flagged_keys, alenza_script_warnings,
          aicon_scripts_flagged_keys, aicon_script_warnings,
          all_scripts_flagged_keys, differences, stdout,
          execute_sql_calls, call, raised, exit_code>>

args == <<contains, client_specific_keyword, comparison_direction,
          is_print_stored_procs>>

environment == <<config_field, alenza_files, aicon_files>>

-----------------------------------------------------------------------------
(* Bounds of the model *)

MaxRows == 2

MaxLines == 3

MaxFiles == 2

MaxChars == 2

-----------------------------------------------------------------------------
(* Program constants *)

ALENZA_CONFIG_SCRIPTS_RELATIVE == "alenza/config/inserts"

AICON_CONFIG_SCRIPTS_RELATIVE == "aicon/config/inserts"

CLIENT_SPECIFIC_DIRECTORY == AICON_CONFIG_SCRIPTS_RELATIVE \o "/client"

NEVER_EXPIRES == "9999"

NOT_AVAILABLE == "N/A"

-----------------------------------------------------------------------------
(* Python string operations *)

\* sub in s
Contains(sub, s) ==
    \E i \in 0..(Len(s) - Len(sub)) : SubSeq(s, i + 1, i + Len(sub)) = sub

\* s.startswith(prefix)
StartsWith(s, prefix) ==
    Len(s) >= Len(prefix) /\ SubSeq(s, 1, Len(prefix)) = prefix

\* the index of the first occurrence of the character c in s, 0 if none
IndexOf(s, c) ==
    IF \E i \in 1..Len(s) : SubSeq(s, i, i) = c
    THEN CHOOSE i \in 1..Len(s) :
             /\ SubSeq(s, i, i) = c
             /\ \A j \in 1..(i - 1) : SubSeq(s, j, j) # c
    ELSE 0

RECURSIVE RemoveChar(_, _)
\* s.replace(c, '') for a single character c
RemoveChar(s, c) ==
    IF Len(s) = 0 THEN ""
    ELSE IF SubSeq(s, 1, 1) = c THEN RemoveChar(SubSeq(s, 2, Len(s)), c)
    ELSE SubSeq(s, 1, 1) \o RemoveChar(SubSeq(s, 2, Len(s)), c)

RECURSIVE Split(_, _)
\* s.split(c) for a single character c
Split(s, c) ==
    LET i == IndexOf(s, c)
    IN  IF i = 0 THEN <<s>>
        ELSE <<SubSeq(s, 1, i - 1)>> \o Split(SubSeq(s, i + 1, Len(s)), c)

Whitespace == {" ", "\t", "\n", "\r"}

RECURSIVE LStrip(_)
LStrip(s) ==
    IF Len(s) > 0 /\ SubSeq(s, 1, 1) \in Whitespace
    THEN LStrip(SubSeq(s, 2, Len(s)))
    ELSE s

RECURSIVE RStrip(_)
RStrip(s) ==
    IF Len(s) > 0 /\ SubSeq(s, Len(s), Len(s)) \in Whitespace
    THEN RStrip(SubSeq(s, 1, Len(s) - 1))
    ELSE s

\* s.strip()
Strip(s) == RStrip(LStrip(s))

-----------------------------------------------------------------------------
(* Python dict operations on a sequence of <<key, value>> pairs *)

\* key in d
Has(d, key) == \E i \in 1..Len(d) : d[i][1] = key

\* d[key]
Get(d, key) == d[CHOOSE i \in 1..Len(d) : d[i][1] = key][2]

\* d[key] = value with a present key deleted first: the key always goes
\* last
PutMovingLast(d, key, value) ==
    Append(SelectSeq(d, LAMBDA item : item[1] # key), <<key, value>>)

\* d[key] = value: a present key keeps its position, a new key goes last
Put(d, key, value) ==
    IF Has(d, key)
    THEN [i \in 1..Len(d) |-> IF d[i][1] = key THEN <<key, value>> ELSE d[i]]
    ELSE Append(d, <<key, value>>)

\* set(d)
KeySet(d) == {d[i][1] : i \in 1..Len(d)}

RECURSIVE UpdateKeepingFirst(_, _)
\* {**e, **d} with the keys in the order of Update: on a key of both the
\* value of d is kept
UpdateKeepingFirst(d, e) ==
    IF Len(e) = 0 THEN d
    ELSE UpdateKeepingFirst(IF Has(d, e[1][1]) THEN d
                            ELSE Put(d, e[1][1], e[1][2]), Tail(e))

RECURSIVE Update(_, _)
\* {**d, **e}
Update(d, e) ==
    IF Len(e) = 0 THEN d
    ELSE Update(Put(d, e[1][1], e[1][2]), Tail(e))

-----------------------------------------------------------------------------
(* Python values of any type, as an operation may be handed: a record of   *)
(* the name of the type and, for a number or a string, its text            *)

Digits == "0123456789"

\* the text is a decimal numeral with an optional sign
IsInteger(text) ==
    LET digits == IF Len(text) > 0 /\ SubSeq(text, 1, 1) \in {"-", "+"}
                  THEN SubSeq(text, 2, Len(text)) ELSE text
    IN  /\ Len(digits) > 0
        /\ \A i \in 1..Len(digits) : IndexOf(Digits, SubSeq(digits, i, i)) > 0

RECURSIVE Decimal(_)
\* the number that a text of digits denotes
Decimal(digits) ==
    IF Len(digits) = 0 THEN 0
    ELSE Decimal(SubSeq(digits, 1, Len(digits) - 1)) * 10
         + (IndexOf(Digits, SubSeq(digits, Len(digits), Len(digits))) - 1)

\* the number that a decimal numeral with an optional sign denotes
Integer(text) ==
    IF SubSeq(text, 1, 1) = "-" THEN 0 - Decimal(SubSeq(text, 2, Len(text)))
    ELSE IF SubSeq(text, 1, 1) = "+" THEN Decimal(SubSeq(text, 2, Len(text)))
    ELSE Decimal(text)

\* int(x): the number, or the exception that int raises
int(x) ==
    CASE x.type = "int" ->
             [raised |-> "", value |-> Integer(x.repr)]
      [] x.type = "str" ->
             IF IsInteger(Strip(x.repr))
             THEN [raised |-> "", value |-> Integer(Strip(x.repr))]
             ELSE [raised |-> "ValueError", value |-> 0]
      [] x.type = "float" ->
             IF x.repr = "nan" THEN [raised |-> "ValueError", value |-> 0]
             ELSE IF x.repr = "inf"
             THEN [raised |-> "OverflowError", value |-> 0]
             ELSE [raised |-> "",
                   value |-> Integer(SubSeq(x.repr, 1,
                                            IndexOf(x.repr, ".") - 1))]
      [] OTHER ->
             [raised |-> "TypeError", value |-> 0]

\* isinstance(x, dict)
isinstance_dict(x) == x.type = "dict"

-----------------------------------------------------------------------------
(* MySQLCompare: the database side *)

\* valid_date.strftime('%Y'); a date is modelled by its year (1000..9999)
strftime_Y(valid_date) == ToString(valid_date)

\* the substring condition testing the start of the key only
passes_prefix(substring_condition, config_name) ==
    substring_condition = "" \/ StartsWith(config_name, substring_condition)

\* the condition of lines 191, 227 and 289
passes_substring(substring_condition, config_name) ==
    substring_condition = "" \/ Contains(substring_condition, config_name)

RECURSIVE filter_data_any_date(_, _)
\* filter_data without the test of line 187 on the validity date
filter_data_any_date(data, substring_condition) ==
    IF Len(data) = 0 THEN <<>>
    ELSE LET filtered_data ==
                 filter_data_any_date(SubSeq(data, 1, Len(data) - 1),
                                      substring_condition)
             row == data[Len(data)]
         IN  IF passes_substring(substring_condition, row.config_name)
             THEN Put(filtered_data, row.config_name, row.config_value)
             ELSE filtered_data

RECURSIVE filter_data(_, _)
\* filter_data: the dict of the never-expiring rows whose key passes the
\* substring condition, a later row overwriting an earlier one
filter_data(data, substring_condition) ==
    IF Len(data) = 0 THEN <<>>
    ELSE LET filtered_data == filter_data(SubSeq(data, 1, Len(data) - 1),
                                          substring_condition)
             row == data[Len(data)]
         IN  IF strftime_Y(row.valid_date) # NEVER_EXPIRES THEN filtered_data
             ELSE IF passes_substring(substring_condition, row.config_name)
             THEN Put(filtered_data, row.config_name, row.config_value)
             ELSE filtered_data

RECURSIVE check_for_duplicates(_)
\* check_for_duplicates: walks the items of a dict, counting a key already
\* seen
check_for_duplicates(data) ==
    IF Len(data) = 0 THEN [flagged_keys |-> <<>>, total_warnings |-> 0]
    ELSE LET before == check_for_duplicates(SubSeq(data, 1, Len(data) - 1))
             item == data[Len(data)]
         IN  [flagged_keys |->
                  Put(before.flagged_keys, item[1], item[2]),
              total_warnings |->
                  IF Has(before.flagged_keys, item[1])
                  THEN before.total_warnings + 1
                  ELSE before.total_warnings]

RECURSIVE process_results(_, _, _)
\* the loop of lines 220-228 over the first n items of filtered_data,
\* starting from the result of check_for_duplicates
process_results(filtered_data, substring_condition, n) ==
    IF n = 0 THEN check_for_duplicates(filtered_data)
    ELSE LET before == process_results(filtered_data, substring_condition,
                                       n - 1)
             config_name == filtered_data[n][1]
             config_value == filtered_data[n][2]
         IN  [flagged_keys |->
                  IF passes_substring(substring_condition, config_name)
                  THEN Put(before.flagged_keys, config_name, config_value)
                  ELSE before.flagged_keys,
              total_warnings |->
                  IF Has(before.flagged_keys, config_name)
                  THEN before.total_warnings + 1
                  ELSE before.total_warnings]

\* analyze_database_config on the fetched rows: the returned dict and the
\* number it adds to TOTAL_WARNINGS
analyze_database_config(data, substring_condition) ==
    LET filtered_data == filter_data(data, substring_condition)
    IN  process_results(filtered_data, substring_condition,
                        Len(filtered_data))

-----------------------------------------------------------------------------
(* MySQLCompare: the scripts side *)

\* parse_stored_proc_statement without the strip() of lines 137 and 138
parse_stored_proc_statement_unstripped(statement) ==
    LET paren == IndexOf(statement, "(")
        line == RemoveChar(RemoveChar(
                    SubSeq(statement, paren + 1, Len(statement)), "\""), "'")
        fields == Split(line, ",")
    IN  IF paren = 0 \/ Len(fields) < 2
        THEN [raised |-> TRUE, config_name |-> "", config_value |-> ""]
        ELSE [raised |-> FALSE,
              config_name |-> fields[1],
              config_value |-> fields[2]]

\* parse_stored_proc_statement; raised stands for the IndexError of
\* split(...)[1]
parse_stored_proc_statement(statement) ==
    LET paren == IndexOf(statement, "(")
        line == RemoveChar(RemoveChar(
                    SubSeq(statement, paren + 1, Len(statement)), "\""), "'")
        fields == Split(line, ",")
    IN  IF paren = 0 \/ Len(fields) < 2
        THEN [raised |-> TRUE, config_name |-> "", config_value |-> ""]
        ELSE [raised |-> FALSE,
              config_name |-> Strip(fields[1]),
              config_value |-> Strip(fields[2])]

\* lines 254-265: is the globbed file added to the files to analyse
is_script_included(path_str, keyword) ==
    IF Contains(CLIENT_SPECIFIC_DIRECTORY, path_str)
    THEN keyword # "" /\ Contains(keyword, path_str)
    ELSE TRUE

\* is_not_stored_procedure without the test on CAST
is_not_call(line) ==
    ~StartsWith(line, "CALL")

\* line 276: the lines that are skipped
is_not_stored_procedure(line) ==
    ~StartsWith(line, "CALL") \/ Contains("CAST", line)

RECURSIVE parse_lines_skipping_malformed(_, _, _)
\* parse_lines with a statement that cannot be parsed skipped like a line
\* that is no statement
parse_lines_skipping_malformed(lines, substring_condition, state) ==
    IF Len(lines) = 0 \/ state.raised THEN state
    ELSE LET line == Head(lines)
             parsed == parse_stored_proc_statement(line)
         IN  IF is_not_stored_procedure(line) \/ parsed.raised
             THEN parse_lines_skipping_malformed(Tail(lines),
                                                 substring_condition, state)
             ELSE parse_lines_skipping_malformed(Tail(lines),
                      substring_condition,
                      [raised |-> FALSE,
                       flagged_keys |->
                           IF passes_substring(substring_condition,
                                               parsed.config_name)
                           THEN Put(state.flagged_keys, parsed.config_name,
                                    parsed.config_value)
                           ELSE state.flagged_keys,
                       total_warnings |->
                           IF Has(state.flagged_keys, parsed.config_name)
                           THEN state.total_warnings + 1
                           ELSE state.total_warnings])

RECURSIVE parse_lines(_, _, _)
\* lines 275-291 over the lines of one file; state is the flagged keys and
\* warnings so far, and whether an exception was raised
parse_lines(lines, substring_condition, state) ==
    IF Len(lines) = 0 \/ state.raised THEN state
    ELSE LET line == Head(lines)
             parsed == parse_stored_proc_statement(line)
         IN  IF is_not_stored_procedure(line)
             THEN parse_lines(Tail(lines), substring_condition, state)
             ELSE IF parsed.raised
             THEN [state EXCEPT !.raised = TRUE]
             ELSE parse_lines(Tail(lines), substring_condition,
                      [raised |-> FALSE,
                       flagged_keys |->
                           IF passes_substring(substring_condition,
                                               parsed.config_name)
                           THEN Put(state.flagged_keys, parsed.config_name,
                                    parsed.config_value)
                           ELSE state.flagged_keys,
                       total_warnings |->
                           IF Has(state.flagged_keys, parsed.config_name)
                           THEN state.total_warnings + 1
                           ELSE state.total_warnings])

RECURSIVE parse_files_one_by_one(_, _, _)
\* parse_files with the duplicates looked for in the keys of the file being
\* read only
parse_files_one_by_one(files, substring_condition, state) ==
    IF Len(files) = 0 \/ state.raised THEN state
    ELSE LET read == parse_lines(Head(files).lines, substring_condition,
                                 [raised |-> FALSE, flagged_keys |-> <<>>,
                                  total_warnings |-> 0])
         IN  parse_files_one_by_one(Tail(files), substring_condition,
                 [raised |-> read.raised,
                  flagged_keys |-> Update(state.flagged_keys,
                                          read.flagged_keys),
                  total_warnings |-> state.total_warnings
                                     + read.total_warnings])

RECURSIVE parse_files(_, _, _)
\* lines 269-293: the files are read in turn, into the same dict
parse_files(files, substring_condition, state) ==
    IF Len(files) = 0 \/ state.raised THEN state
    ELSE parse_files(Tail(files), substring_condition,
                     parse_lines(Head(files).lines, substring_condition,
                                 state))

\* the files of line 252-265, in glob order
included_scripts(files, keyword) ==
    SelectSeq(files, LAMBDA f : is_script_included(f.path, keyword))

\* analyze_scripts_config with the dict of line 244 kept from the pass over
\* the alenza directory, instead of starting empty in each pass
analyze_scripts_config_keeping_keys(files, substring_condition, keyword) ==
    parse_files(included_scripts(files, keyword), substring_condition,
                [raised |-> FALSE,
                 flagged_keys |-> alenza_scripts_flagged_keys,
                 total_warnings |-> 0])

\* analyze_scripts_config on the files globbed under one directory
analyze_scripts_config(files, substring_condition, keyword) ==
    parse_files(included_scripts(files, keyword), substring_condition,
                [raised |-> FALSE, flagged_keys |-> <<>>,
                 total_warnings |-> 0])

-----------------------------------------------------------------------------
(* MySQLCompare: comparison and remediation *)

\* compare_key without the test of line 328: a key whose values agree is
\* reported as a CHANGE
compare_key_reporting_matches(database_keys, script_keys, config_name) ==
    IF Has(database_keys, config_name)
    THEN <<<<"CHANGE", config_name, Get(database_keys, config_name),
             Get(script_keys, config_name)>>>>
    ELSE <<<<"MISSING", config_name, NOT_AVAILABLE,
             Get(script_keys, config_name)>>>>

\* lines 327-338: the entries one script key adds to the differences
compare_key(database_keys, script_keys, config_name) ==
    IF Has(database_keys, config_name)
    THEN IF Get(script_keys, config_name) # Get(database_keys, config_name)
         THEN <<<<"CHANGE", config_name, Get(database_keys, config_name),
                  Get(script_keys, config_name)>>>>
         ELSE <<>>
    ELSE <<<<"MISSING", config_name, NOT_AVAILABLE,
             Get(script_keys, config_name)>>>>

RECURSIVE compare_keys_prepending(_, _, _)
\* compare_keys with each entry inserted at the front of the differences
compare_keys_prepending(database_keys, script_keys, n) ==
    IF n = 0 THEN <<>>
    ELSE compare_key(database_keys, script_keys, script_keys[n][1])
         \o compare_keys_prepending(database_keys, script_keys, n - 1)

RECURSIVE compare_keys(_, _, _)
\* the loop of line 326 over the first n keys of script_keys
compare_keys(database_keys, script_keys, n) ==
    IF n = 0 THEN <<>>
    ELSE compare_keys(database_keys, script_keys, n - 1)
         \o compare_key(database_keys, script_keys, script_keys[n][1])

\* compare_database_to_scripts enumerating the keys of the database: a key
\* the scripts lack is reported
compare_database_keys(database_keys, script_keys) ==
    compare_keys(script_keys, database_keys, Len(database_keys))

\* compare_database_to_scripts, both arguments being dicts
compare_database_to_scripts(database_keys, script_keys) ==
    compare_keys(database_keys, script_keys, Len(script_keys))

\* lines 97 and 101: the statement format
stored_proc_statement(k, v) ==
    "CALL SP_CREATE_CONFIG_FIELD('" \o k \o "', '" \o v \o "', null);"

\* entry_statement taking the value of the scripts in both directions
entry_statement_of_script_value(entry, direction) ==
    stored_proc_statement(entry[2], entry[4])

\* lines 96-103: the statement of one entry
entry_statement(entry, direction) ==
    IF direction = "scripts" THEN stored_proc_statement(entry[2], entry[4])
    ELSE stored_proc_statement(entry[2], entry[3])

\* lines 91-111: the statements of the entries of one difference type
statements_of(entries, direction, difference_type) ==
    LET selected == SelectSeq(entries, LAMBDA e : e[1] = difference_type)
    IN  [i \in 1..Len(selected) |-> entry_statement(selected[i], direction)]

Rule == "--------------------------------------------------"

BlankLines == "\n\n\n\n\n"

MissingDoesNotApply ==
    "STORED PROCEDURES FOR MISSING KEYS: Since we're trying to CHANGE THE "
    \o "SCRIPTS to MATCH THE SERVER,this DOES NOT APPLY! Skipping..."

\* generate_missing_stored_proc_statement printing the statements of the
\* missing keys in both directions
generate_printing_all_missing(entries, direction, is_print) ==
    IF Len(entries) > 0 /\ is_print
    THEN <<BlankLines, "Generating procedure calls ...",
           "**Printing to make copy-paste-able", Rule,
           "STORED PROCEDURES FOR MISSING KEYS:">>
         \o statements_of(entries, direction, "MISSING")
         \o <<Rule, BlankLines,
              "STORED PROCEDURES FOR KEYS WITH DIFFERENT VALUES:">>
         \o statements_of(entries, direction, "CHANGE")
         \o <<Rule>>
    ELSE <<>>

\* generate_missing_stored_proc_statement: the lines it prints, for a
\* direction that is "scripts" or "server"
generate_missing_stored_proc_statement(entries, direction, is_print) ==
    IF Len(entries) > 0 /\ is_print
    THEN <<BlankLines, "Generating procedure calls ...",
           "**Printing to make copy-paste-able", Rule>>
         \o (IF direction = "scripts"
             THEN <<"STORED PROCEDURES FOR MISSING KEYS:">>
                  \o statements_of(entries, direction, "MISSING")
             ELSE <<MissingDoesNotApply>>)
         \o <<Rule, BlankLines,
              "STORED PROCEDURES FOR KEYS WITH DIFFERENT VALUES:">>
         \o statements_of(entries, direction, "CHANGE")
         \o <<Rule>>
    ELSE <<>>

\* compare_database_to_scripts called with arguments of any type (lines
\* 305-310 and then the comparison)
compare_database_to_scripts_of(database_keys, script_keys) ==
    IF ~isinstance_dict(database_keys) \/ ~isinstance_dict(script_keys)
    THEN <<>>
    ELSE compare_database_to_scripts(database_keys.value, script_keys.value)

\* self.database_warnings
database_warnings == 0

\* notify_warnings on an object whose warning total is total: the exception
\* that leaves it, "" if it returns, and the total afterwards
notify_warnings(total, additional_warnings) ==
    LET converted == int(additional_warnings)
    IN  IF converted.raised = "ValueError"
        THEN [raised |-> "", TOTAL_WARNINGS |-> total]
        ELSE IF converted.raised # ""
        THEN [raised |-> converted.raised, TOTAL_WARNINGS |-> total]
        ELSE [raised |-> "",
              TOTAL_WARNINGS |-> total + database_warnings
                                      + converted.value]

-----------------------------------------------------------------------------
(* The environments of a run *)

Keys == {"a", "ab"}

Values == {"1", "2"}

Years == {9999, 2024}

\* a row of config_field: row[2], row[3] and the year of row[5]
Rows == [config_name : Keys, config_value : Values, valid_date : Years]

EligibleRows == {row \in Rows : row.valid_date = 9999}

BoundedSeq(S, n) == UNION {[1..m -> S] : m \in 0..n}

\* a statement line of an insert script
StatementLines == {stored_proc_statement(k, v) : k \in Keys, v \in Values}

\* lines starting with CALL that parse_stored_proc_statement cannot split:
\* one without parenthesis, one with a single argument
MalformedLines ==
    {"CALL SP_REFRESH_CONFIG;", "CALL SP_DELETE_CONFIG_FIELD('a');"}

\* lines that line 276 skips: a comment, an indented statement, a
\* statement whose value is wrapped in CAST and one whose key holds the
\* letters CAST
SkippedLines ==
    {"-- configuration fields",
     "    " \o stored_proc_statement("a", "2"),
     "CALL SP_CREATE_CONFIG_FIELD('ab', CAST('2' AS CHAR), null);",
     stored_proc_statement("BROADCAST", "1")}

\* the lines of the insert scripts of the family InitLines
ScriptLines ==
    {stored_proc_statement("a", "1"), stored_proc_statement("a", "2"),
     stored_proc_statement("ab", "1")}
    \cup MalformedLines \cup SkippedLines

AiconPath == AICON_CONFIG_SCRIPTS_RELATIVE \o "/base.sql"

\* the statement lines of the scripts of the family InitMerge
MergeLines ==
    {stored_proc_statement("a", "1"), stored_proc_statement("a", "2"),
     stored_proc_statement("ab", "1")}

AlenzaPaths ==
    <<ALENZA_CONFIG_SCRIPTS_RELATIVE \o "/application.sql",
      ALENZA_CONFIG_SCRIPTS_RELATIVE \o "/network.sql",
      ALENZA_CONFIG_SCRIPTS_RELATIVE \o "/security.sql">>

AcmePath == CLIENT_SPECIFIC_DIRECTORY \o "/acme/custom.sql"

RECURSIVE TextsOfLength(_, _)
\* the texts of n of the characters
TextsOfLength(characters, n) ==
    IF n = 0 THEN {""}
    ELSE {text \o c : text \in TextsOfLength(characters, n - 1),
                      c \in characters}

\* keys and values of a configuration entry: texts without comma and quote
\* that neither start nor end with a blank, among them one holding the
\* letters CAST and one holding a blank
EntryTexts ==
    {text \in UNION {TextsOfLength({"a", "(", ")", " "}, n) :
                        n \in 0..MaxChars} :
        Strip(text) = text}
    \cup {"BROADCAST", "max size"}

\* paths globbed under aicon/config/inserts: a common script, the scripts of
\* two clients under client/, and a common script whose name starts with
\* the word client
AiconPaths ==
    <<AiconPath,
      AcmePath,
      CLIENT_SPECIFIC_DIRECTORY \o "/globex/custom.sql",
      AICON_CONFIG_SCRIPTS_RELATIVE \o "/client_defaults.sql">>

\* the key that the script at each of the AiconPaths sets
AiconKeys == <<"base", "acme", "globex", "defaults">>

\* the aicon directories of at most maxFiles of the AiconPaths, each script
\* holding one statement of its key
AiconDirs(maxFiles) ==
    UNION {
        {LET present == SelectSeq(<<1, 2, 3, 4>>, LAMBDA n : n \in chosen)
         IN  [i \in 1..Len(present) |->
                 [path |-> AiconPaths[present[i]],
                  lines |-> <<stored_proc_statement(AiconKeys[present[i]],
                                                    value[present[i]])>>]] :
           value \in [chosen -> Values]} :
        chosen \in {c \in SUBSET (1..4) : Cardinality(c) <= maxFiles}}

\* the directories of n files whose lines, read file after file, are ls
DirsOfLines(paths, n, ls) ==
    {[i \in 1..n |->
         [path |-> paths[i],
          lines |-> SubSeq(ls, (IF i = 1 THEN 0 ELSE end[i - 1]) + 1, end[i])]] :
       end \in {e \in [1..n -> 0..Len(ls)] :
                   /\ n > 0 => e[n] = Len(ls)
                   /\ \A i \in 1..(n - 1) : e[i] <= e[i + 1]}}

\* the directories of at most maxFiles files holding at most maxLines lines
Dirs(paths, maxFiles, maxLines, lineSet) ==
    {<<>>} \cup UNION {DirsOfLines(paths, n, ls) :
                          n \in 1..maxFiles, ls \in BoundedSeq(lineSet, maxLines)}

\* the dicts of at most MaxRows of the Keys
Dicts ==
    {d \in BoundedSeq(Keys \X Values, MaxRows) :
        \A i, j \in 1..Len(d) : d[i][1] = d[j][1] => i = j}

\* values handed to compare_database_to_scripts: dicts, lists of pairs and
\* None
KeysArguments ==
    {[type |-> "dict", value |-> d] : d \in Dicts}
    \cup {[type |-> "list", value |-> d] : d \in Dicts}
    \cup {[type |-> "NoneType", value |-> <<>>]}

\* values handed to notify_warnings: numbers, strings, None and a list
WarningsArguments ==
    {[type |-> "int", repr |-> "0"], [type |-> "int", repr |-> "2"],
     [type |-> "str", repr |-> "3"], [type |-> "str", repr |-> " 1\n"],
     [type |-> "str", repr |-> "abc"], [type |-> "str", repr |-> ""],
     [type |-> "float", repr |-> "2.5"], [type |-> "float", repr |-> "nan"],
     [type |-> "float", repr |-> "inf"],
     [type |-> "NoneType", repr |-> "None"], [type |-> "list", repr |-> "[]"]}

TypeOK ==
    /\ contains \in {"", "b"}
    /\ client_specific_keyword \in {"", "acme"}
    /\ comparison_direction \in {"scripts", "server"}
    /\ is_print_stored_procs \in BOOLEAN
    /\ pc \in {"connect", "analyze_database", "analyze_alenza",
               "analyze_aicon", "compare", "generate", "notify", "close",
               "done", "call", "returned"}
    /\ raised \in {"", "TypeError", "OverflowError"}
    /\ connection \in {"none", "open", "closed"}
    /\ TOTAL_WARNINGS \in Nat
    /\ execute_sql_calls \in 0..1
    /\ exit_code \in {-1, 0, 1}

-----------------------------------------------------------------------------
(* main() *)

\* the state in which main() is entered, for given sets of environments
InitRun(tables, alenzas, aicons, substrings, keywords, directions, prints) ==
    /\ config_field \in tables
    /\ alenza_files \in alenzas
    /\ aicon_files \in aicons
    /\ contains \in substrings
    /\ client_specific_keyword \in keywords
    /\ comparison_direction \in directions
    /\ is_print_stored_procs \in prints
    /\ pc = "connect"
    /\ connection = "none"
    /\ TOTAL_WARNINGS = 0
    /\ database_flagged_keys = <<>>
    /\ alenza_scripts_flagged_keys = <<>>
    /\ alenza_script_warnings = 0
    /\ aicon_scripts_flagged_keys = <<>>
    /\ aicon_script_warnings = 0
    /\ all_scripts_flagged_keys = <<>>
    /\ differences = <<>>
    /\ stdout = <<>>
    /\ execute_sql_calls = 0
    /\ call = [operation |-> "main"]
    /\ raised = ""
    /\ exit_code = -1

\* main() returns early (lines 415 and 432): the process ends with code 0
Return ==
    /\ pc' = "done"
    /\ exit_code' = 0

\* MySQLCompare(...) and connect() succeed
Connect ==
    /\ pc = "connect"
    /\ connection' = "open"
    /\ pc' = "analyze_database"
    /\ UNCHANGED <<execute_sql_calls, call, raised>>
    /\ UNCHANGED <<args, environment, TOTAL_WARNINGS, database_flagged_keys,
                   alenza_scripts_flagged_keys, alenza_script_warnings,
                   aicon_scripts_flagged_keys, aicon_script_warnings,
                   all_scripts_flagged_keys, differences, stdout, exit_code>>

\* connect() catches peewee.OperationalError and calls sys.exit(1)
ConnectFails ==
    /\ pc = "connect"
    /\ pc' = "done"
    /\ exit_code' = 1
    /\ UNCHANGED <<execute_sql_calls, call, raised>>
    /\ UNCHANGED <<args, environment, connection, TOTAL_WARNINGS,
                   database_flagged_keys, alenza_scripts_flagged_keys,
                   alenza_script_warnings, aicon_scripts_flagged_keys,
                   aicon_script_warnings, all_scripts_flagged_keys,
                   differences, stdout>>

\* connection.connect() (or another step of the constructor) raises an
\* exception that is not peewee.OperationalError: connect() lets it through
\* and main() catches it at line 413
InitializingFails ==
    /\ pc = "connect"
    /\ Return
    /\ UNCHANGED <<execute_sql_calls, call, raised>>
    /\ UNCHANGED <<args, environment, connection, TOTAL_WARNINGS,
                   database_flagged_keys, alenza_scripts_flagged_keys,
                   alenza_script_warnings, aicon_scripts_flagged_keys,
                   aicon_script_warnings, all_scripts_flagged_keys,
                   differences, stdout>>

\* analyze_database_config, the fetch succeeding
AnalyzeDatabase ==
    /\ pc = "analyze_database"
    /\ execute_sql_calls' = execute_sql_calls + 1
    /\ UNCHANGED <<call, raised>>
    /\ LET result == analyze_database_config(config_field, contains)
       IN  /\ database_flagged_keys' = result.flagged_keys
           /\ TOTAL_WARNINGS' = TOTAL_WARNINGS + result.total_warnings
    /\ pc' = "analyze_alenza"
    /\ UNCHANGED <<args, environment, connection,
                   alenza_scripts_flagged_keys, alenza_script_warnings,
                   aicon_scripts_flagged_keys, aicon_script_warnings,
                   all_scripts_flagged_keys, differences, stdout, exit_code>>

\* FetchFails with the failure of the query swallowed: the extraction goes on
\* as if the table were empty
FetchFailsSwallowed ==
    /\ pc = "analyze_database"
    /\ execute_sql_calls' = execute_sql_calls + 1
    /\ UNCHANGED <<call, raised>>
    /\ pc' = "analyze_alenza"
    /\ UNCHANGED <<args, environment, connection, TOTAL_WARNINGS,
                   database_flagged_keys, alenza_scripts_flagged_keys,
                   alenza_script_warnings, aicon_scripts_flagged_keys,
                   aicon_script_warnings, all_scripts_flagged_keys,
                   differences, stdout, exit_code>>

\* fetch_data_from_db re-raises the failure of the query, caught at line 430
FetchFails ==
    /\ pc = "analyze_database"
    /\ execute_sql_calls' = execute_sql_calls + 1
    /\ UNCHANGED <<call, raised>>
    /\ Return
    /\ UNCHANGED <<args, environment, connection, TOTAL_WARNINGS,
                   database_flagged_keys, alenza_scripts_flagged_keys,
                   alenza_script_warnings, aicon_scripts_flagged_keys,
                   aicon_script_warnings, all_scripts_flagged_keys,
                   differences, stdout>>

\* analyze_scripts_config of the alenza directory (lines 420-423); an
\* exception it raises is caught at line 430
AnalyzeAlenza ==
    /\ pc = "analyze_alenza"
    /\ LET result == analyze_scripts_config(alenza_files, contains,
                                            client_specific_keyword)
       IN  IF result.raised
           THEN /\ Return
                /\ UNCHANGED <<alenza_scripts_flagged_keys,
                               alenza_script_warnings>>
           ELSE /\ alenza_scripts_flagged_keys' = result.flagged_keys
                /\ alenza_script_warnings' = result.total_warnings
                /\ pc' = "analyze_aicon"
                /\ UNCHANGED exit_code
    /\ UNCHANGED <<execute_sql_calls, call, raised>>
    /\ UNCHANGED <<args, environment, connection, TOTAL_WARNINGS,
                   database_flagged_keys, aicon_scripts_flagged_keys,
                   aicon_script_warnings, all_scripts_flagged_keys,
                   differences, stdout>>

\* analyze_scripts_config of the aicon directory and the merge of line 429
AnalyzeAicon ==
    /\ pc = "analyze_aicon"
    /\ LET result == analyze_scripts_config(aicon_files, contains,
                                            client_specific_keyword)
       IN  IF result.raised
           THEN /\ Return
                /\ UNCHANGED <<aicon_scripts_flagged_keys,
                               aicon_script_warnings,
                               all_scripts_flagged_keys>>
           ELSE /\ aicon_scripts_flagged_keys' = result.flagged_keys
                /\ aicon_script_warnings' = result.total_warnings
                /\ all_scripts_flagged_keys' =
                       Update(alenza_scripts_flagged_keys,
                              result.flagged_keys)
                /\ pc' = "compare"
                /\ UNCHANGED exit_code
    /\ UNCHANGED <<execute_sql_calls, call, raised>>
    /\ UNCHANGED <<args, environment, connection, TOTAL_WARNINGS,
                   database_flagged_keys, alenza_scripts_flagged_keys,
                   alenza_script_warnings, differences, stdout>>

\* open() or readlines() of an included script raises, caught at line 430
ReadFails ==
    /\ \/ /\ pc = "analyze_alenza"
          /\ included_scripts(alenza_files, client_specific_keyword) # <<>>
       \/ /\ pc = "analyze_aicon"
          /\ included_scripts(aicon_files, client_specific_keyword) # <<>>
    /\ Return
    /\ UNCHANGED <<execute_sql_calls, call, raised>>
    /\ UNCHANGED <<args, environment, connection, TOTAL_WARNINGS,
                   database_flagged_keys, alenza_scripts_flagged_keys,
                   alenza_script_warnings, aicon_scripts_flagged_keys,
                   aicon_script_warnings, all_scripts_flagged_keys,
                   differences, stdout>>

\* compare_database_to_scripts (lines 435-438) and the test of line 439
Compare ==
    /\ pc = "compare"
    /\ differences' = compare_database_to_scripts(database_flagged_keys,
                                                  all_scripts_flagged_keys)
    /\ pc' = IF differences' # <<>> THEN "generate" ELSE "notify"
    /\ UNCHANGED <<execute_sql_calls, call, raised>>
    /\ UNCHANGED <<args, environment, connection, TOTAL_WARNINGS,
                   database_flagged_keys, alenza_scripts_flagged_keys,
                   alenza_script_warnings, aicon_scripts_flagged_keys,
                   aicon_script_warnings, all_scripts_flagged_keys, stdout,
                   exit_code>>

\* generate_missing_stored_proc_statement (line 440)
Generate ==
    /\ pc = "generate"
    /\ stdout' = stdout \o generate_missing_stored_proc_statement(
                               differences, comparison_direction,
                               is_print_stored_procs)
    /\ pc' = "notify"
    /\ UNCHANGED <<execute_sql_calls, call, raised>>
    /\ UNCHANGED <<args, environment, connection, TOTAL_WARNINGS,
                   database_flagged_keys, alenza_scripts_flagged_keys,
                   alenza_script_warnings, aicon_scripts_flagged_keys,
                   aicon_script_warnings, all_scripts_flagged_keys,
                   differences, exit_code>>

\* a print of generate_missing_stored_proc_statement raises (the standard
\* output is closed): the exception is caught at line 443
GenerateFails ==
    /\ pc = "generate"
    /\ LET out == generate_missing_stored_proc_statement(
                      differences, comparison_direction,
                      is_print_stored_procs)
       IN  \E n \in 0..(Len(out) - 1) : stdout' = stdout \o SubSeq(out, 1, n)
    /\ pc' = "notify"
    /\ UNCHANGED <<execute_sql_calls, call, raised>>
    /\ UNCHANGED <<args, environment, connection, TOTAL_WARNINGS,
                   database_flagged_keys, alenza_scripts_flagged_keys,
                   alenza_script_warnings, aicon_scripts_flagged_keys,
                   aicon_script_warnings, all_scripts_flagged_keys,
                   differences, exit_code>>

\* NotifyWarnings with the total set to the warnings of the scripts, instead
\* of these being added to it
NotifyWarningsOverwriting ==
    /\ pc = "notify"
    /\ TOTAL_WARNINGS' = database_warnings
                         + (alenza_script_warnings + aicon_script_warnings)
    /\ pc' = "close"
    /\ UNCHANGED <<execute_sql_calls, call, raised>>
    /\ UNCHANGED <<args, environment, connection, database_flagged_keys,
                   alenza_scripts_flagged_keys, alenza_script_warnings,
                   aicon_scripts_flagged_keys, aicon_script_warnings,
                   all_scripts_flagged_keys, differences, stdout, exit_code>>

\* notify_warnings (line 447)
NotifyWarnings ==
    /\ pc = "notify"
    /\ TOTAL_WARNINGS' = TOTAL_WARNINGS + database_warnings
                         + (alenza_script_warnings + aicon_script_warnings)
    /\ pc' = "close"
    /\ UNCHANGED <<execute_sql_calls, call, raised>>
    /\ UNCHANGED <<args, environment, connection, database_flagged_keys,
                   alenza_scripts_flagged_keys, alenza_script_warnings,
                   aicon_scripts_flagged_keys, aicon_script_warnings,
                   all_scripts_flagged_keys, differences, stdout, exit_code>>

\* close_connection in the finally clause of line 450, then main() returns
CloseConnection ==
    /\ pc = "close"
    /\ connection' = "closed"
    /\ Return
    /\ UNCHANGED <<execute_sql_calls, call, raised>>
    /\ UNCHANGED <<args, environment, TOTAL_WARNINGS, database_flagged_keys,
                   alenza_scripts_flagged_keys, alenza_script_warnings,
                   aicon_scripts_flagged_keys, aicon_script_warnings,
                   all_scripts_flagged_keys, differences, stdout>>

Next ==
    \/ Connect
    \/ ConnectFails
    \/ InitializingFails
    \/ AnalyzeDatabase
    \/ FetchFails
    \/ AnalyzeAlenza
    \/ AnalyzeAicon
    \/ ReadFails
    \/ Compare
    \/ Generate
    \/ GenerateFails
    \/ NotifyWarnings
    \/ CloseConnection

-----------------------------------------------------------------------------
(* compare_database_to_scripts and notify_warnings called on their own, on  *)
(* a connected MySQLCompare, with arguments of any type                     *)

InitCalls ==
    /\ call \in {[operation |-> "compare_database_to_scripts",
                   database_keys |-> d, script_keys |-> k] :
                     d \in KeysArguments, k \in KeysArguments}
               \cup {[operation |-> "notify_warnings",
                      additional_warnings |-> w] : w \in WarningsArguments}
    /\ TOTAL_WARNINGS \in 0..1
    /\ pc = "call"
    /\ raised = ""
    /\ connection = "open"
    /\ config_field = <<>>
    /\ alenza_files = <<>>
    /\ aicon_files = <<>>
    /\ contains = ""
    /\ client_specific_keyword = ""
    /\ comparison_direction = "scripts"
    /\ is_print_stored_procs = TRUE
    /\ database_flagged_keys = <<>>
    /\ alenza_scripts_flagged_keys = <<>>
    /\ alenza_script_warnings = 0
    /\ aicon_scripts_flagged_keys = <<>>
    /\ aicon_script_warnings = 0
    /\ all_scripts_flagged_keys = <<>>
    /\ differences = <<>>
    /\ stdout = <<>>
    /\ execute_sql_calls = 0
    /\ exit_code = -1

\* mysql.compare_database_to_scripts(database_keys, script_keys)
CallCompareDatabaseToScripts ==
    /\ pc = "call"
    /\ call.operation = "compare_database_to_scripts"
    /\ differences' = compare_database_to_scripts_of(call.database_keys,
                                                     call.script_keys)
    /\ raised' = ""
    /\ pc' = "returned"
    /\ UNCHANGED <<args, environment, connection, TOTAL_WARNINGS,
                   database_flagged_keys, alenza_scripts_flagged_keys,
                   alenza_script_warnings, aicon_scripts_flagged_keys,
                   aicon_script_warnings, all_scripts_flagged_keys, stdout,
                   execute_sql_calls, call, exit_code>>

\* mysql.notify_warnings(additional_warnings)
CallNotifyWarnings ==
    /\ pc = "call"
    /\ call.operation = "notify_warnings"
    /\ LET result == notify_warnings(TOTAL_WARNINGS, call.additional_warnings)
       IN  /\ TOTAL_WARNINGS' = result.TOTAL_WARNINGS
           /\ raised' = result.raised
    /\ pc' = "returned"        \* the call is over, by a return or a raise
    /\ UNCHANGED <<args, environment, connection, database_flagged_keys,
                   alenza_scripts_flagged_keys, alenza_script_warnings,
                   aicon_scripts_flagged_keys, aicon_script_warnings,
                   all_scripts_flagged_keys, differences, stdout,
                   execute_sql_calls, call, exit_code>>

NextCalls ==
    \/ CallCompareDatabaseToScripts
    \/ CallNotifyWarnings

SpecCalls == InitCalls /\ [][NextCalls]_vars

-----------------------------------------------------------------------------
(* Specifications: main() run in bounded families of environments *)

\* the table varies; the scripts are fixed
InitDatabase ==
    InitRun(BoundedSeq(Rows, MaxRows),
            {<<[path |-> AlenzaPaths[1],
                lines |-> <<"-- configuration fields",
                            stored_proc_statement("a", "1"),
                            stored_proc_statement("ab", "2")>>]>>},
            {<<>>},
            {"", "b"}, {""}, {"scripts"}, {TRUE})

\* the alenza scripts vary, over several files; the aicon scripts are one
\* client specific file
InitScripts ==
    InitRun({<<[config_name |-> "a", config_value |-> "1",
                valid_date |-> 9999]>>},
            Dirs(AlenzaPaths, MaxFiles, MaxLines, StatementLines),
            {<<[path |-> AcmePath,
                lines |-> <<stored_proc_statement("ab", "2")>>]>>},
            {"", "b"}, {"", "acme"}, {"scripts"}, {TRUE})

\* the current rows of the table and the statements of one script vary
\* (two statements give every mapping of the two keys), with the direction
\* and the printing of the remediation
InitCompare ==
    InitRun(BoundedSeq(EligibleRows, MaxRows),
            Dirs(AlenzaPaths, 1, MaxLines - 1, StatementLines),
            {<<>>},
            {""}, {""}, {"scripts", "server"}, BOOLEAN)

\* the lines of one alenza script vary over statements, malformed statements
\* and skipped lines; the aicon script is one line of these kinds
InitLines ==
    InitRun({<<[config_name |-> "a", config_value |-> "1",
                valid_date |-> 9999]>>},
            Dirs(AlenzaPaths, 1, MaxLines, ScriptLines),
            {<<[path |-> AiconPath, lines |-> <<line>>]>> :
                line \in {stored_proc_statement("ab", "1"),
                          "CALL SP_REFRESH_CONFIG;",
                          "-- configuration fields"}},
            {""}, {""}, {"scripts"}, {TRUE})

\* the scripts present under aicon/config/inserts and the client keyword
\* vary
InitClients ==
    InitRun({<<[config_name |-> "a", config_value |-> "1",
                valid_date |-> 9999]>>},
            {<<[path |-> AlenzaPaths[1],
                lines |-> <<stored_proc_statement("a", "1")>>]>>},
            AiconDirs(MaxFiles),
            {""}, {"", "acme"}, {"scripts"}, {TRUE})

\* the statements of one alenza script and of one aicon script vary, over
\* the same keys
InitMerge ==
    InitRun({<<[config_name |-> "a", config_value |-> "1",
                valid_date |-> 9999],
               [config_name |-> "ab", config_value |-> "1",
                valid_date |-> 9999]>>,
             <<[config_name |-> "a", config_value |-> "2",
                valid_date |-> 9999]>>},
            Dirs(AlenzaPaths, 1, MaxLines - 1, MergeLines),
            Dirs(<<AiconPath>>, 1, MaxLines - 1, MergeLines),
            {""}, {""}, {"scripts"}, {TRUE})

\* the table holds one entry and the alenza script holds the remediation
\* statement of that entry
InitRoundTrip ==
    \E k \in EntryTexts, v \in EntryTexts :
        InitRun({<<[config_name |-> k, config_value |-> v,
                    valid_date |-> 9999]>>},
                {<<[path |-> AlenzaPaths[1],
                    lines |-> <<stored_proc_statement(k, v)>>]>>},
                {<<[path |-> AiconPath,
                    lines |-> <<stored_proc_statement("ab", "2")>>]>>},
                {""}, {""}, {"scripts"}, {TRUE})

SpecDatabase == InitDatabase /\ [][Next]_vars

SpecRoundTrip == InitRoundTrip /\ [][Next]_vars

SpecMerge == InitMerge /\ [][Next]_vars

SpecClients == InitClients /\ [][Next]_vars

SpecLines == InitLines /\ [][Next]_vars

SpecScripts == InitScripts /\ [][Next]_vars

SpecCompare == InitCompare /\ [][Next]_vars

\* both extractions under the substring filter
SpecExtractors == (InitDatabase \/ InitScripts) /\ [][Next]_vars

Init == InitDatabase \/ InitScripts \/ InitCompare

Spec == Init /\ [][Next]_vars

-----------------------------------------------------------------------------
(* Properties *)

\* compare_database_to_scripts has returned in this run
Compared ==
    \/ pc \in {"generate", "notify", "close"}
    \/ pc = "done" /\ connection = "closed"

\* the <<key, value>> pairs of a dict
Items(d) == {d[i] : i \in 1..Len(d)}

\* the position of a key in the iteration order of a dict
Position(d, key) == CHOOSE i \in 1..Len(d) : d[i][1] = key

\* the records of the differences about a key
RecordsOf(key) == {i \in 1..Len(differences) : differences[i][2] = key}

\* C1: compare_database_to_scripts returns, for each key of the scripts
\* mapping, one CHANGE record with the database value and the script value
\* when the database mapping holds the key with another value, no record
\* when it holds the key with the same value, and one MISSING record with
\* the database value 'N/A' and the script value when it lacks the key.
C1_DifferencesClassifyScriptKeys ==
    Compared =>
        \A pair \in Items(all_scripts_flagged_keys) :
            LET key == pair[1]
                script_value == pair[2]
                database_values ==
                    {item[2] : item \in {it \in Items(database_flagged_keys) :
                                            it[1] = key}}
                records == {differences[i] : i \in RecordsOf(key)}
            IN  /\ Cardinality(RecordsOf(key)) = Cardinality(records)
                /\ records =
                       IF database_values = {}
                       THEN {<<"MISSING", key, "N/A", script_value>>}
                       ELSE {<<"CHANGE", key, v, script_value>> :
                                v \in database_values \ {script_value}}

\* C1 witness: a CHANGE record followed by a MISSING record, as in the
\* example of the claim
C1_Witness ==
    /\ Compared
    /\ Len(differences) = 2
    /\ differences[1][1] = "CHANGE"
    /\ differences[2][1] = "MISSING"
    /\ differences[2][3] = "N/A"

\* C2: every record of the differences has a key of the scripts mapping; a
\* key that only the database mapping holds is in no record.
C2_OnlyScriptKeysReported ==
    Compared =>
        \A i \in 1..Len(differences) :
            \E pair \in Items(all_scripts_flagged_keys) :
                differences[i][2] = pair[1]

\* C2 witness: the database holds a key the scripts lack, and there are
\* differences
C2_Witness ==
    /\ Compared
    /\ differences # <<>>
    /\ \E item \in Items(database_flagged_keys) :
           \A pair \in Items(all_scripts_flagged_keys) : pair[1] # item[1]

\* C3: the records of the differences are in the iteration order of the
\* scripts mapping, and no key is in two records.
C3_DifferencesInScriptOrder ==
    Compared =>
        \A i, j \in 1..Len(differences) :
            i < j => Position(all_scripts_flagged_keys, differences[i][2])
                     < Position(all_scripts_flagged_keys, differences[j][2])

\* C3 witness: two records, about the first and the second key of the
\* scripts mapping
C3_Witness ==
    /\ Compared
    /\ Len(differences) = 2
    /\ Len(all_scripts_flagged_keys) = 2
    /\ differences[1][2] = all_scripts_flagged_keys[1][1]
    /\ differences[2][2] = all_scripts_flagged_keys[2][1]

\* the substring filter retains the key
Retains(substring, key) == substring = "" \/ Contains(substring, key)

\* the rows of the table that never expire and that the filter retains
RetainedRows ==
    SelectSeq(config_field,
              LAMBDA row : row.valid_date = 9999
                           /\ Retains(contains, row.config_name))

\* the keys of a sequence of rows
RowKeys(rows) == {rows[i].config_name : i \in 1..Len(rows)}

\* the value of the last of the rows with the key
LastRowValue(rows, key) ==
    LET last == CHOOSE i \in 1..Len(rows) :
                    /\ rows[i].config_name = key
                    /\ \A j \in (i + 1)..Len(rows) : rows[j].config_name # key
    IN  rows[last].config_value

\* analyze_database_config has just returned
DatabaseAnalyzed == pc = "analyze_alenza"

\* C4: the duplicate count analyze_database_config adds to the warning total
\* is the number of the retained eligible rows minus the number of their
\* distinct keys.
C4_DatabaseDuplicateCount ==
    DatabaseAnalyzed =>
        TOTAL_WARNINGS = Len(RetainedRows) - Cardinality(RowKeys(RetainedRows))

RECURSIVE Lines(_)
\* the lines of the files, file after file
Lines(files) ==
    IF Len(files) = 0 THEN <<>>
    ELSE Head(files).lines \o Lines(Tail(files))

\* the observations of a pass over the files: the key and value of each
\* statement line of the included files
Observations(files) ==
    LET statements ==
            SelectSeq(Lines(included_scripts(files, client_specific_keyword)),
                      LAMBDA line : ~is_not_stored_procedure(line))
    IN  [i \in 1..Len(statements) |->
            parse_stored_proc_statement(statements[i])]

\* the observations that the filter retains
RetainedObservations(files) ==
    SelectSeq(Observations(files),
              LAMBDA o : Retains(contains, o.config_name))

ObservedKeys(observations) ==
    {observations[i].config_name : i \in 1..Len(observations)}

\* the value of the last of the observations of the key
LastObservedValue(observations, key) ==
    LET last == CHOOSE i \in 1..Len(observations) :
                    /\ observations[i].config_name = key
                    /\ \A j \in (i + 1)..Len(observations) :
                           observations[j].config_name # key
    IN  observations[last].config_value

\* a pass over the files returned the mapping and the duplicate count of the
\* retained observations of the whole batch
BatchResult(files, flagged_keys, total_warnings) ==
    LET retained == RetainedObservations(files)
    IN  /\ total_warnings = Len(retained) - Cardinality(ObservedKeys(retained))
        /\ Items(flagged_keys) =
               {<<key, LastObservedValue(retained, key)>> :
                   key \in ObservedKeys(retained)}

\* C5: a pass of analyze_scripts_config returns as duplicate count the number
\* of retained observations of all its files minus the number of their
\* distinct keys, and a mapping holding for each key the value of its last
\* retained observation.
C5_ScriptsBatchDuplicates ==
    /\ pc = "analyze_aicon" =>
           BatchResult(alenza_files, alenza_scripts_flagged_keys,
                       alenza_script_warnings)
    /\ pc = "compare" =>
           BatchResult(aicon_files, aicon_scripts_flagged_keys,
                       aicon_script_warnings)

\* C5 witness: the key a is set to 1 in the first file and to 2 in the second
\* file: the mapping is {a: 2} and the duplicate count 1
C5_Witness ==
    /\ pc = "analyze_aicon"
    /\ Len(alenza_files) = 2
    /\ alenza_files[1].lines = <<stored_proc_statement("a", "1")>>
    /\ alenza_files[2].lines = <<stored_proc_statement("a", "2")>>
    /\ alenza_scripts_flagged_keys = <<<<"a", "2">>>>
    /\ alenza_script_warnings = 1

\* the files without the statement lines whose key the filter drops
WithoutDropped(files) ==
    [i \in 1..Len(files) |->
        [path |-> files[i].path,
         lines |-> SelectSeq(files[i].lines,
                       LAMBDA line :
                           \/ is_not_stored_procedure(line)
                           \/ Retains(contains,
                                  parse_stored_proc_statement(line).config_name))]]

\* a pass over the files returned the keys that the filter retains, and
\* counted no dropped observation
FilteredResult(files, flagged_keys, total_warnings) ==
    LET unfiltered == analyze_scripts_config(WithoutDropped(files), "",
                                             client_specific_keyword)
    IN  /\ KeySet(flagged_keys) = ObservedKeys(RetainedObservations(files))
        /\ total_warnings = unfiltered.total_warnings
        /\ total_warnings <= Len(RetainedObservations(files))

\* C6: both extractors return a mapping whose keys are the observed keys that
\* contain the substring (all of them when it is empty), and count as
\* duplicates none of the observations that the filter drops: the count is
\* the one of the retained observations alone.
C6_FilterRetainsContainingKeys ==
    /\ DatabaseAnalyzed =>
           /\ KeySet(database_flagged_keys) = RowKeys(RetainedRows)
           /\ TOTAL_WARNINGS =
                  analyze_database_config(RetainedRows, "").total_warnings
           /\ TOTAL_WARNINGS <= Len(RetainedRows)
    /\ pc = "analyze_aicon" =>
           FilteredResult(alenza_files, alenza_scripts_flagged_keys,
                          alenza_script_warnings)
    /\ pc = "compare" =>
           FilteredResult(aicon_files, aicon_scripts_flagged_keys,
                          aicon_script_warnings)

\* C6 witness: with the substring b, a pass over the scripts drops two
\* statements of the key a and retains the key ab
C6_Witness ==
    /\ pc = "analyze_aicon"
    /\ contains = "b"
    /\ Len(Observations(alenza_files)) = 3
    /\ Len(RetainedObservations(alenza_files)) = 1
    /\ alenza_scripts_flagged_keys # <<>>
    /\ alenza_script_warnings = 0

RemediationStatement(key, value) ==
    "CALL SP_CREATE_CONFIG_FIELD('" \o key \o "', '" \o value \o "', null);"

\* the line is a remediation statement of the key, with whatever value
IsStatementOf(line, key) ==
    \E value \in Values \cup {"N/A"} : line = RemediationStatement(key, value)

\* the differences of one kind
DifferencesOfKind(kind) == SelectSeq(differences, LAMBDA e : e[1] = kind)

\* the printed lines that are statements of a key of the given differences
PrintedStatements(entries) ==
    SelectSeq(stdout,
              LAMBDA line : \E i \in 1..Len(entries) :
                                IsStatementOf(line, entries[i][2]))

\* the position of the first printed line equal to the text, 0 if none
PrintedAt(text) ==
    IF \E n \in 1..Len(stdout) : stdout[n] = text
    THEN CHOOSE n \in 1..Len(stdout) :
             stdout[n] = text /\ \A m \in 1..(n - 1) : stdout[m] # text
    ELSE 0

\* the printed statements of the CHANGE keys are one per CHANGE difference,
\* in the order of the differences, with the value the direction selects
ChangeStatementsPrinted ==
    LET changes == DifferencesOfKind("CHANGE")
    IN  PrintedStatements(changes) =
            [i \in 1..Len(changes) |->
                RemediationStatement(changes[i][2],
                    IF comparison_direction = "scripts" THEN changes[i][4]
                    ELSE changes[i][3])]

\* C8: with the remediation output enabled, generate_missing_stored_proc_
\* statement prints for every CHANGE difference exactly one statement CALL
\* SP_CREATE_CONFIG_FIELD('<key>', '<value>', null); with the script value
\* when the direction is 'scripts' and the database value when it is
\* 'server', in the order of the differences.
C8_ChangeStatementPerDirection ==
    [][Generate /\ is_print_stored_procs => ChangeStatementsPrinted']_vars

\* C8 witness: under the direction 'server' the statement of a CHANGE key
\* has been printed with the value of the database
C8_Witness ==
    /\ pc = "notify"
    /\ is_print_stored_procs
    /\ comparison_direction = "server"
    /\ differences = <<<<"CHANGE", "a", "1", "2">>>>
    /\ Len(stdout) > 1
    /\ stdout[Len(stdout) - 1] = RemediationStatement("a", "1")
    /\ stdout[Len(stdout)] = Rule

\* the printed statements of the MISSING keys are one per MISSING
\* difference, with the script value, under the heading of the missing keys
MissingStatementsPrinted ==
    LET missing == DifferencesOfKind("MISSING")
    IN  /\ PrintedStatements(missing) =
               [i \in 1..Len(missing) |->
                   RemediationStatement(missing[i][2], missing[i][4])]
        /\ \A n \in 1..Len(stdout) :
               (\E i \in 1..Len(missing) :
                    IsStatementOf(stdout[n], missing[i][2]))
               => /\ PrintedAt("STORED PROCEDURES FOR MISSING KEYS:") \in 1..(n - 1)
                  /\ PrintedAt("STORED PROCEDURES FOR KEYS WITH DIFFERENT VALUES:") > n

\* C9: under the direction 'scripts' a MISSING difference of key X and
\* script value Y is printed as the missing-statement CALL
\* SP_CREATE_CONFIG_FIELD('X', 'Y', null); under the direction 'server' no
\* statement of a MISSING key (none with the value 'N/A' either) is printed.
C9_MissingStatementOnlyForScripts ==
    [][/\ Generate \/ GenerateFails =>
              (comparison_direction = "server"
                   => PrintedStatements(DifferencesOfKind("MISSING"))' = <<>>)
       /\ Generate /\ is_print_stored_procs =>
              (comparison_direction = "scripts" => MissingStatementsPrinted')
      ]_vars

\* C9 witness: under the direction 'server' the remediation of a MISSING and
\* a CHANGE difference has been printed to its end
C9_Witness ==
    /\ pc = "notify"
    /\ is_print_stored_procs
    /\ comparison_direction = "server"
    /\ Len(DifferencesOfKind("MISSING")) = 1
    /\ Len(DifferencesOfKind("CHANGE")) = 1
    /\ PrintedAt(MissingDoesNotApply) > 0
    /\ Len(PrintedStatements(differences)) = 1
    /\ stdout[Len(stdout)] = Rule

\* C10: a run that has opened the connection has closed it when it ends,
\* whether it completed or aborted on an error of a later stage.
C10_ConnectionClosedAtEnd ==
    pc = "done" /\ connection # "none" => connection = "closed"

\* no stage after the connection has acted: nothing was extracted, compared,
\* printed or reported
NoStageTookPlace ==
    /\ TOTAL_WARNINGS = 0
    /\ database_flagged_keys = <<>>
    /\ alenza_scripts_flagged_keys = <<>>
    /\ alenza_script_warnings = 0
    /\ aicon_scripts_flagged_keys = <<>>
    /\ aicon_script_warnings = 0
    /\ all_scripts_flagged_keys = <<>>
    /\ differences = <<>>
    /\ stdout = <<>>

\* C11: a run that ends without a connection (connecting failed) ends with
\* the exit code 1 and without any extraction, reconciliation, remediation
\* or warning report; a run that obtained the connection ends with the exit
\* code 0, whatever stage failed after it.
C11_ExitCodeOfRun ==
    pc = "done" =>
        IF connection = "none"
        THEN exit_code = 1 /\ NoStageTookPlace
        ELSE exit_code = 0

\* C12: the query is executed at most once in a run; when the fetch fails the
\* run ends at that step, without any script extraction, reconciliation or
\* remediation output, and a run that has ended takes no further step.
C12_FetchFailureAborts ==
    [][/\ execute_sql_calls' <= 1
       /\ pc # "done"
       /\ FetchFails =>
              /\ pc' = "done"
              /\ execute_sql_calls' = 1
              /\ alenza_scripts_flagged_keys' = <<>>
              /\ aicon_scripts_flagged_keys' = <<>>
              /\ all_scripts_flagged_keys' = <<>>
              /\ differences' = <<>>
              /\ stdout' = <<>>
      ]_vars

\* C12 witness: the table holds a current row and the scripts hold
\* statements, the query was executed once and the run has ended with no
\* key extracted from either: the fetch failed
C12_Witness ==
    /\ pc = "done"
    /\ execute_sql_calls = 1
    /\ RetainedRows # <<>>
    /\ Observations(alenza_files) # <<>>
    /\ database_flagged_keys = <<>>
    /\ alenza_scripts_flagged_keys = <<>>
    /\ differences = <<>>
    /\ stdout = <<>>

\* the line is a statement line: it starts with CALL and nowhere holds CAST
StatementLine(line) ==
    /\ Len(line) >= 4
    /\ SubSeq(line, 1, 4) = "CALL"
    /\ \A i \in 1..(Len(line) - 3) : SubSeq(line, i, i + 3) # "CAST"

\* the positions of the character c in the line
PositionsOf(line, c) == {i \in 1..Len(line) : SubSeq(line, i, i) = c}

\* the line has no opening parenthesis, or no comma after the first one:
\* fewer than two comma-separated fields
FewerThanTwoFields(line) ==
    \/ PositionsOf(line, "(") = {}
    \/ \A comma \in PositionsOf(line, ",") :
           \E paren \in PositionsOf(line, "(") : comma < paren

\* an included file of the directory holds a malformed statement line
MalformedIn(files) ==
    LET lines == Lines(included_scripts(files, client_specific_keyword))
    IN  \E i \in 1..Len(lines) :
            StatementLine(lines[i]) /\ FewerThanTwoFields(lines[i])

\* C13: when an included script of a directory holds a statement line
\* without opening parenthesis or with fewer than two comma-separated
\* fields, the pass over that directory never returns a mapping: the run
\* does not get past that pass, no key of the directory is kept, nothing is
\* merged or reconciled, and the run ends by the abort of line 432.
C13_MalformedStatementFailsPass ==
    /\ MalformedIn(alenza_files) =>
           /\ pc \in {"connect", "analyze_database", "analyze_alenza", "done"}
           /\ alenza_scripts_flagged_keys = <<>>
    /\ MalformedIn(aicon_files) =>
           /\ pc \in {"connect", "analyze_database", "analyze_alenza",
                      "analyze_aicon", "done"}
           /\ aicon_scripts_flagged_keys = <<>>
    /\ MalformedIn(alenza_files) \/ MalformedIn(aicon_files) =>
           /\ all_scripts_flagged_keys = <<>>
           /\ differences = <<>>
           /\ stdout = <<>>
           /\ pc = "done" => connection # "closed"

\* C13 witness: the alenza script sets the key a to 2, against 1 in the
\* table, and then holds a statement with a single argument: the run has
\* ended after the database pass with no script key and no difference
C13_Witness ==
    /\ pc = "done"
    /\ database_flagged_keys = <<<<"a", "1">>>>
    /\ Len(alenza_files) = 1
    /\ alenza_files[1].lines = <<stored_proc_statement("a", "2"),
                                 "CALL SP_DELETE_CONFIG_FIELD('a');">>
    /\ alenza_scripts_flagged_keys = <<>>
    /\ differences = <<>>

\* the path lies under the client-specific subdirectory
UnderClientDirectory(path) ==
    Contains(AICON_CONFIG_SCRIPTS_RELATIVE \o "/client/", path)

\* the files of a directory that a pass is to include
FilesToInclude(files) ==
    SelectSeq(files,
              LAMBDA f : UnderClientDirectory(f.path) =>
                             /\ client_specific_keyword # ""
                             /\ Contains(client_specific_keyword, f.path))

\* C14: a pass over the aicon directory returns the keys of the files to
\* include: of a file under the client-specific subdirectory only if a
\* keyword is given and occurs in its path, of any other file always.
C14_ClientSpecificInclusion ==
    pc = "compare" =>
        KeySet(aicon_scripts_flagged_keys) =
            ObservedKeys([i \in 1..Len(FilesToInclude(aicon_files)) |->
                parse_stored_proc_statement(
                    FilesToInclude(aicon_files)[i].lines[1])])

\* the value can be converted to an integer: it is a number that is finite,
\* or a string holding a decimal numeral
Convertible(value) ==
    \/ value.type = "int"
    \/ value.type = "float" /\ value.repr \notin {"nan", "inf"}
    \/ value.type = "str" /\ IsInteger(Strip(value.repr))

\* C15: no exception leaves either operation; compare_database_to_scripts
\* called with an argument that is not a dict returns an empty list, and
\* notify_warnings called with a value that cannot be converted to an
\* integer (None included) returns with the warning total unchanged.
C15_InvalidInputsHandledSoftly ==
    [][/\ CallCompareDatabaseToScripts =>
              /\ raised' = ""
              /\ (call.database_keys.type # "dict"
                   \/ call.script_keys.type # "dict") => differences' = <<>>
       /\ CallNotifyWarnings =>
              /\ raised' = ""
              /\ ~Convertible(call.additional_warnings) =>
                     TOTAL_WARNINGS' = TOTAL_WARNINGS
      ]_vars

\* the duplicate count of the database pass of the run
DatabasePassCount ==
    analyze_database_config(config_field, contains).total_warnings

\* C16: the warning total is 0 when the run starts and no step decreases
\* it; the comparison and the remediation leave it unchanged; after
\* notify_warnings it is the sum of the duplicate counts of the database
\* pass, the alenza pass and the aicon pass.
C16_WarningTotalAccumulates ==
    [][/\ pc = "connect" => TOTAL_WARNINGS = 0
       /\ TOTAL_WARNINGS' >= TOTAL_WARNINGS
       /\ pc \in {"compare", "generate"} => TOTAL_WARNINGS' = TOTAL_WARNINGS
       /\ NotifyWarnings =>
              TOTAL_WARNINGS' = DatabasePassCount + alenza_script_warnings
                                + aicon_script_warnings
      ]_vars

\* C16 witness: each of the three passes has counted a duplicate, and
\* notify_warnings has reported their sum
C16_Witness ==
    /\ pc = "close"
    /\ DatabasePassCount > 0
    /\ alenza_script_warnings > 0
    /\ aicon_script_warnings > 0
    /\ differences # <<>>
    /\ TOTAL_WARNINGS = DatabasePassCount + alenza_script_warnings
                        + aicon_script_warnings

\* the scripts mapping has been merged in this run
Merged ==
    \/ pc \in {"compare", "generate", "notify", "close"}
    \/ pc = "done" /\ connection = "closed"

\* the value of the key in the merge of the two mappings: the one of the
\* aicon mapping if it holds the key, else the one of the alenza mapping
MergedValue(key) ==
    IF \E pair \in Items(aicon_scripts_flagged_keys) : pair[1] = key
    THEN (CHOOSE pair \in Items(aicon_scripts_flagged_keys) :
              pair[1] = key)[2]
    ELSE (CHOOSE pair \in Items(alenza_scripts_flagged_keys) :
              pair[1] = key)[2]

\* C17: the scripts mapping that is compared has as keys the keys of the
\* alenza mapping and of the aicon mapping, each with the aicon value if the
\* aicon mapping holds the key and with the alenza value otherwise; the
\* script value of every difference is that value.
C17_MergeAlenzaThenAicon ==
    /\ Merged =>
           /\ KeySet(all_scripts_flagged_keys) =
                  KeySet(alenza_scripts_flagged_keys)
                  \cup KeySet(aicon_scripts_flagged_keys)
           /\ \A pair \in Items(all_scripts_flagged_keys) :
                  pair[2] = MergedValue(pair[1])
    /\ Compared =>
           /\ \A i \in 1..Len(differences) :
                  differences[i][4] = MergedValue(differences[i][2])
           /\ \A item \in Items(database_flagged_keys) :
                  item[1] \in KeySet(all_scripts_flagged_keys) =>
                      (item[2] # MergedValue(item[1])
                       <=> \E i \in 1..Len(differences) :
                               differences[i][2] = item[1])

\* C17 witness: the key a is 1 in the table and in the alenza scripts and 2
\* in the aicon scripts: the merge holds 2 and a CHANGE from 1 to 2 is
\* reported
C17_Witness ==
    /\ Compared
    /\ database_flagged_keys = <<<<"a", "1">>, <<"ab", "1">>>>
    /\ alenza_scripts_flagged_keys = <<<<"a", "1">>>>
    /\ aicon_scripts_flagged_keys = <<<<"a", "2">>>>
    /\ all_scripts_flagged_keys = <<<<"a", "2">>>>
    /\ differences = <<<<"CHANGE", "a", "1", "2">>>>

\* the key and value of the statement lines of the included files of a
\* directory, in the order in which they are read
StatementObservations(files) ==
    LET statements ==
            SelectSeq(Lines(included_scripts(files, client_specific_keyword)),
                      StatementLine)
    IN  [i \in 1..Len(statements) |->
            parse_stored_proc_statement(statements[i])]

\* the mapping and the duplicate count are those of the statement lines
\* alone, all keys being retained
OfStatementLinesOnly(files, flagged_keys, total_warnings) ==
    LET observations == StatementObservations(files)
    IN  /\ total_warnings =
               Len(observations) - Cardinality(ObservedKeys(observations))
        /\ Items(flagged_keys) =
               {<<key, LastObservedValue(observations, key)>> :
                   key \in ObservedKeys(observations)}

\* C18: a pass returns the mapping and the duplicate count of the lines that
\* start with CALL and hold no CAST; the other lines add nothing to them,
\* and a pass over files without malformed statement does not fail.
C18_StatementLinesOnly ==
    [][/\ AnalyzeAlenza /\ ~MalformedIn(alenza_files) =>
              /\ pc' = "analyze_aicon"
              /\ OfStatementLinesOnly(alenza_files,
                                      alenza_scripts_flagged_keys',
                                      alenza_script_warnings')
       /\ AnalyzeAicon /\ ~MalformedIn(aicon_files) =>
              /\ pc' = "compare"
              /\ OfStatementLinesOnly(aicon_files,
                                      aicon_scripts_flagged_keys',
                                      aicon_script_warnings')
      ]_vars

\* C18 witness: the script holds an indented statement of the key a, a
\* statement whose key holds the letters CAST, and a statement setting a to
\* 1: the pass has returned {a: 1} and no duplicate
C18_Witness ==
    /\ pc = "analyze_aicon"
    /\ Len(alenza_files) = 1
    /\ alenza_files[1].lines =
           <<"    " \o stored_proc_statement("a", "2"),
             stored_proc_statement("BROADCAST", "1"),
             stored_proc_statement("a", "1")>>
    /\ alenza_scripts_flagged_keys = <<<<"a", "1">>>>
    /\ alenza_script_warnings = 0

\* the entry of the table and its remediation statement in the script
Entry == <<config_field[1].config_name, config_field[1].config_value>>

EntryStatement == alenza_files[1].lines[1]

\* parse_stored_proc_statement gives back the entry from its statement
ParsedBack ==
    LET parsed == parse_stored_proc_statement(EntryStatement)
    IN  /\ ~parsed.raised
        /\ <<parsed.config_name, parsed.config_value>> = Entry

\* the text holds the letters CAST
HoldsCast(text) ==
    \E i \in 1..(Len(text) - 3) : SubSeq(text, i, i + 3) = "CAST"

DuplicatesWithin(files) ==
    LET observations == RetainedObservations(files)
    IN  Cardinality({i \in 1..Len(observations) :
            \E j \in 1..(i - 1) :
                observations[j].config_name = observations[i].config_name})

\* notify_warnings has reported the warning total
Reported ==
    \/ pc = "close"
    \/ pc = "done" /\ connection = "closed"

\* C20: each script pass counts the repetitions of a key within its own
\* directory only, and the reported total holds nothing for a key that the
\* alenza and the aicon scripts both set; the merged mapping holds the aicon
\* value of such a key.
C20_NoDuplicatesAcrossPasses ==
    /\ Merged =>
           /\ alenza_script_warnings = DuplicatesWithin(alenza_files)
           /\ aicon_script_warnings = DuplicatesWithin(aicon_files)
           /\ \A pair \in Items(aicon_scripts_flagged_keys) :
                  pair \in Items(all_scripts_flagged_keys)
    /\ Reported =>
           TOTAL_WARNINGS = DatabasePassCount + DuplicatesWithin(alenza_files)
                            + DuplicatesWithin(aicon_files)

\* C20 witness: the alenza script sets the key a to 1 and the aicon script
\* sets it to 2, each once: no script duplicate is in the reported total,
\* and the merged mapping holds 2
C20_Witness ==
    /\ Reported
    /\ Len(alenza_files) = 1
    /\ Len(aicon_files) = 1
    /\ alenza_files[1].lines = <<stored_proc_statement("a", "1")>>
    /\ aicon_files[1].lines = <<stored_proc_statement("a", "2")>>
    /\ alenza_script_warnings + aicon_script_warnings = 0
    /\ TOTAL_WARNINGS = DatabasePassCount
    /\ all_scripts_flagged_keys = <<<<"a", "2">>>>

\* the observations whose key no earlier observation holds, in their order
FirstObservations(observations) ==
    LET first == {i \in 1..Len(observations) :
                     \A j \in 1..(i - 1) :
                         observations[j].config_name
                         # observations[i].config_name}
        rank(i) == Cardinality({j \in first : j <= i})
    IN  [n \in 1..Cardinality(first) |->
            observations[CHOOSE i \in first : rank(i) = n]]

\* the mapping holding each observed key at the position of its first
\* observation, with the value of its last observation
FirstPositionLastValue(observations) ==
    LET first == FirstObservations(observations)
    IN  [n \in 1..Len(first) |->
            <<first[n].config_name,
              LastObservedValue(observations, first[n].config_name)>>]

\* the observations of the run: those of the alenza pass, then those of the
\* aicon pass
AllObservations == Observations(alenza_files) \o Observations(aicon_files)

=============================================================================
